---- MODULE Spec2Model ----
(***************************************************************************)
(* The in-memory fixed-window rate limiter (lib/rate-limit.ts) and the     *)
(* admission gate of the route handlers that call it.                      *)
(*                                                                         *)
(* Time is Date.now() in milliseconds.  The clock is taken to be           *)
(* non-decreasing.  A window is a record [count, resetTime]; the map       *)
(* rateLimit is a function on the identifiers that have an entry, and      *)
(* NoWindow is what get() gives (undefined) for any other identifier.      *)
(* unswept is the map of the same module run with the same calls at the    *)
(* same times but without its cleanup timer.  log is kept by a caller that *)
(* checks each identifier under one policy only: the policy and the times  *)
(* of its admitted calls.  integrations is the table of that name.         *)
(***************************************************************************)
EXTENDS Integers, Sequences, FiniteSets, TLC

VARIABLES rateLimit, now, last, obs, reqs, served, unswept, log,
          integrations, api, response, sync

vars == <<rateLimit, now, last, obs, reqs, served, unswept, log,
          integrations, api, response, sync>>

\* What the limiter and the requests of the route table do not touch: the
\* integrations table, the invocation of an /api/integrations handler with
\* the response it returned, and the invocation of the Shopify product sync.
dataVars == <<integrations, api, response, sync>>

(***************************************************************************)
(* Bounds of the model.                                                    *)
(***************************************************************************)
MaxTime == 2
MaxInterval == 1
MaxQuota == 2

MaxInFlight == 2
MaxServed == 17
MaxServedTable == 22
MaxOffset == 1
MaxServedDocumented == 4
MaxServedKeys == 4
MaxServedApi == 2
MaxServedSync == 4
MaxProducts == 2
MaxBurstInterval == 2
MaxBurstTime == 5

Identifiers == {"A", "B"}
Intervals == -1 .. MaxInterval
Quotas == -1 .. MaxQuota
Instants == 0 .. MaxTime

(***************************************************************************)
(* Values of the program.                                                  *)
(***************************************************************************)
NoWindow == [count |-> 0, resetTime |-> 0, present |-> FALSE]
Window(c, r) == [count |-> c, resetTime |-> r, present |-> TRUE]
NaN == "NaN"
\* Map.get, Map.set
Get(m, identifier) ==
  IF identifier \in DOMAIN m THEN m[identifier] ELSE NoWindow
Set(m, identifier, w) ==
  [i \in DOMAIN m \cup {identifier} |-> IF i = identifier THEN w ELSE m[i]]
EmptyMap == [i \in {} |-> NoWindow]

NoObs == [t0 |-> 0, interval |-> 0, n |-> 0, open |-> FALSE]
NoCall == [id |-> "", config |-> [interval |-> 0, uniqueTokenPerInterval |-> 0],
           at |-> 0, before |-> NoWindow, after |-> NoWindow, seen |-> NoObs,
           result |-> [success |-> FALSE, remaining |-> 0], made |-> FALSE]

NoLog == [config |-> [interval |-> 0, uniqueTokenPerInterval |-> 0],
          admits |-> <<>>]

\* RateLimitConfig: the policies a direct caller may pass.
Configs == [interval : Intervals, uniqueTokenPerInterval : Quotas]

\* Reading config.uniqueTokenPerInterval: undefined when the object has no
\* such property.
HasQuota(config) == "uniqueTokenPerInterval" \in DOMAIN config

\* now > tokenData.resetTime
ExpiredMutNever(tokenData, t) == FALSE
ExpiredMutGE(tokenData, t) == t >= tokenData.resetTime
Expired(tokenData, t) == t > tokenData.resetTime

\* tokenData.count >= config.uniqueTokenPerInterval (false against undefined)
ExhaustedMutGT(tokenData, config) ==
  HasQuota(config) /\ tokenData.count > config.uniqueTokenPerInterval
Exhausted(tokenData, config) ==
  HasQuota(config) /\ tokenData.count >= config.uniqueTokenPerInterval

\* config.uniqueTokenPerInterval - c (NaN when the quota is undefined)
RemainingMutBefore(config, c) ==
  IF HasQuota(config) THEN config.uniqueTokenPerInterval - c + 1 ELSE NaN
RemainingMutStale(config, c) ==
  IF HasQuota(config) THEN config.uniqueTokenPerInterval - 1 ELSE NaN
Remaining(config, c) ==
  IF HasQuota(config) THEN config.uniqueTokenPerInterval - c ELSE NaN

\* The branch that resets or creates the window.
FreshMutBack(m, t, identifier, config) ==
  [map |-> Set(m, identifier, Window(1, t - config.interval)),
   result |-> [success |-> TRUE, remaining |-> Remaining(config, 1)]]
FreshMutZero(m, t, identifier, config) ==
  [map |-> Set(m, identifier, Window(0, t + config.interval)),
   result |-> [success |-> TRUE, remaining |-> Remaining(config, 1)]]
FreshMutKeepCount(m, t, identifier, config) ==
  [map |-> Set(m, identifier,
               Window(Get(m, identifier).count + 1, t + config.interval)),
   result |-> [success |-> TRUE, remaining |-> Remaining(config, 1)]]
FreshMutWipe(m, t, identifier, config) ==
  [map |-> Set(EmptyMap, identifier, Window(1, t + config.interval)),
   result |-> [success |-> TRUE, remaining |-> Remaining(config, 1)]]
Fresh(m, t, identifier, config) ==
  [map |-> Set(m, identifier, Window(1, t + config.interval)),
   result |-> [success |-> TRUE, remaining |-> Remaining(config, 1)]]

\* The branch that rejects: the map is left as it is.
RejectedMutThrow(m, identifier) ==
  [map |-> m,
   result |-> [thrown |-> TRUE]]
RejectedMutCount(m, identifier) ==
  [map |-> Set(m, identifier, [m[identifier] EXCEPT !.count = @ + 1]),
   result |-> [success |-> FALSE, remaining |-> 0]]
Rejected(m, identifier) ==
  [map |-> m,
   result |-> [success |-> FALSE, remaining |-> 0]]

\* The branch that admits inside the window: tokenData.count++.
AdmittedMutExtend(m, identifier, config) ==
  [map |-> Set(m, identifier,
               [m[identifier] EXCEPT !.count = @ + 1,
                                     !.resetTime = @ + config.interval]),
   result |-> [success |-> TRUE,
               remaining |-> Remaining(config, m[identifier].count + 1)]]
AdmittedMutTwice(m, identifier, config) ==
  [map |-> Set(m, identifier, [m[identifier] EXCEPT !.count = @ + 2]),
   result |-> [success |-> TRUE,
               remaining |-> Remaining(config, m[identifier].count + 1)]]
AdmittedMutLost(m, identifier, config) ==
  [map |-> m,
   result |-> [success |-> TRUE,
               remaining |-> Remaining(config, m[identifier].count + 1)]]
Admitted(m, identifier, config) ==
  [map |-> Set(m, identifier, [m[identifier] EXCEPT !.count = @ + 1]),
   result |-> [success |-> TRUE,
               remaining |-> Remaining(config, m[identifier].count + 1)]]

(***************************************************************************)
(* checkRateLimit(identifier, config) at time t on the map m: the new map  *)
(* and the returned object.                                                *)
(***************************************************************************)
checkRateLimit(m, t, identifier, config) ==
  LET tokenData == Get(m, identifier) IN
  IF ~tokenData.present \/ Expired(tokenData, t)
    THEN Fresh(m, t, identifier, config)
  ELSE IF Exhausted(tokenData, config)
    THEN Rejected(m, identifier)
  ELSE Admitted(m, identifier, config)

(***************************************************************************)
(* The observer: what a caller can tell from the times, the inputs and the *)
(* results of its calls alone.  It opens a window at the first call for an *)
(* identifier and at each call made later than t0 + interval of the open   *)
(* window, and counts the calls admitted since.                            *)
(***************************************************************************)
Observe(o, t, config, result) ==
  IF ~o.open \/ t > o.t0 + o.interval
    THEN [t0 |-> t, interval |-> config.interval,
          n |-> IF result.success THEN 1 ELSE 0, open |-> TRUE]
    ELSE [o EXCEPT !.n = IF result.success THEN @ + 1 ELSE @]

Seen(os, identifier) ==
  IF identifier \in DOMAIN os THEN os[identifier] ELSE NoObs
Noted(os, identifier, t, config, result) ==
  [i \in DOMAIN os \cup {identifier} |->
     IF i = identifier THEN Observe(Seen(os, identifier), t, config, result)
                       ELSE os[i]]

\* One call of checkRateLimit, with its record.
Call(identifier, config) ==
  LET r == checkRateLimit(rateLimit, now, identifier, config) IN
  /\ rateLimit' = r.map
  /\ last' = [id |-> identifier, config |-> config, at |-> now,
              before |-> Get(rateLimit, identifier),
              after |-> Get(r.map, identifier),
              seen |-> Seen(obs, identifier), result |-> r.result,
              made |-> TRUE]
  /\ obs' = Noted(obs, identifier, now, config, r.result)
  /\ unswept' = checkRateLimit(unswept, now, identifier, config).map

(***************************************************************************)
(* Route handlers.  A handler runs from one await to the next without      *)
(* interruption; between awaits other requests and timers may run.         *)
(***************************************************************************)
Users == {"u1", "u2"}
NoUser == "none"
Slots == 1 .. MaxInFlight

\* RATE_LIMITS (lib/config/constants.ts): entries are {interval, requests}.
RATE_LIMITSMutAuth ==
  [DEFAULT            |-> [interval |-> 60000, requests |-> 30],
   AUTH               |-> [interval |-> 60000, requests |-> 10],
   SHIPMENTS_READ     |-> [interval |-> 60000, requests |-> 50],
   SHIPMENTS_WRITE    |-> [interval |-> 60000, requests |-> 20],
   INTEGRATIONS_READ  |-> [interval |-> 60000, requests |-> 30],
   INTEGRATIONS_WRITE |-> [interval |-> 60000, requests |-> 5],
   SYNC               |-> [interval |-> 300000, requests |-> 3]]
RATE_LIMITS ==
  [DEFAULT            |-> [interval |-> 60000, requests |-> 30],
   AUTH               |-> [interval |-> 60000, requests |-> 5],
   SHIPMENTS_READ     |-> [interval |-> 60000, requests |-> 50],
   SHIPMENTS_WRITE    |-> [interval |-> 60000, requests |-> 20],
   INTEGRATIONS_READ  |-> [interval |-> 60000, requests |-> 30],
   INTEGRATIONS_WRITE |-> [interval |-> 60000, requests |-> 5],
   SYNC               |-> [interval |-> 300000, requests |-> 3]]

\* What follows the gate in a handler: each step is an await, on a table
\* query ("table"), on request.json() ("body") or on a third party
\* ("external"), with the statuses the handler may answer in place of going
\* on: its early returns after the step, and 500 from the catch block when
\* the await can throw past the handler's try.
Step(kind, exit) == [kind |-> kind, exit |-> exit]

\* POST /api/shipments/[id]/events
EventsPost ==
  [prefix |-> "events-post-",
   config |-> [interval |-> 60000, uniqueTokenPerInterval |-> 15],
   steps |-> <<Step("table", {404, 500}), Step("body", {400, 500}),
               Step("table", {500})>>,
   ok |-> 201]

\* POST /api/shipments
ShipmentsPost ==
  [prefix |-> "shipments-post-",
   config |-> RATE_LIMITS.SHIPMENTS_WRITE,
   steps |-> <<Step("body", {400, 500}), Step("table", {400, 500}),
               Step("table", {409, 500}),
               Step("table", {400, 404, 409, 500})>>,
   ok |-> 201]

Routes == {EventsPost, ShipmentsPost}

\* Times the clock may show while requests are served: the start, and the
\* end of a window opened at the start, up to MaxOffset ms later.
RouteInstants ==
  {0} \cup {r.config.interval + d : r \in Routes, d \in 0 .. MaxOffset}

\* `${prefix}${user.id}`
KeyMutBare(route, user) == user
Key(route, user) == route.prefix \o user

Idle == [pc |-> "idle", route |-> EventsPost, user |-> NoUser, step |-> 0,
         status |-> 0, tableOps |-> 0, admitted |-> FALSE]

(***************************************************************************)
(* /api/integrations (app/api/integrations/route.ts).  A row of the        *)
(* integrations table is [id, user, platform, shop_url, access_token],     *)
(* the id given by the database; a request body has the last three         *)
(* fields, "" standing for a missing or empty one.  A response is its      *)
(* status with the integration objects of its body (none in an error       *)
(* body).                                                                  *)
(***************************************************************************)
Mask == "****"
Tokens == {"shpat_a", "shpat_b"}
Platforms == {"shopify", "tiktok_shop", "etsy"}
ShopUrls == {"a.myshopify.com"}
Bodies == [platform : Platforms \cup {""}, shop_url : ShopUrls \cup {""},
           access_token : Tokens \cup {""}]

NoApi == [pc |-> "idle"]
NoResponse == [status |-> 0, objects |-> {}]

\* The checkRateLimit call of each handler.
ApiKey(op, user) ==
  (IF op = "GET" THEN "integrations-get-" ELSE "integrations-post-") \o user
ApiConfig(op) ==
  [interval |-> 60000,
   uniqueTokenPerInterval |-> IF op = "GET" THEN 30 ELSE 5]

\* { ...integration, access_token: '****' }
SanitizedMutRaw(integration) == integration
Sanitized(integration) == [integration EXCEPT !.access_token = Mask]

\* return NextResponse.json(...)
Respond(status, objects) ==
  /\ api' = [api EXCEPT !.pc = "done"]
  /\ response' = [status |-> status, objects |-> objects]

\* A request to GET or POST /api/integrations arrives; the handler awaits
\* createClient() and getUser().
ApiArrive(op, user, body) ==
  /\ api.pc \in {"idle", "done"}
  /\ served < MaxServedApi
  /\ served' = served + 1
  /\ api' = [pc |-> "getUser", op |-> op, user |-> user, body |-> body]
  /\ response' = NoResponse
  /\ UNCHANGED <<rateLimit, now, last, obs, reqs, unswept, log,
                 integrations, sync>>

\* The auth check, the rate limit check, then the first await of the work.
ApiAfterGetUser ==
  /\ api.pc = "getUser"
  /\ IF api.user = NoUser
       THEN /\ Respond(401, {})
            /\ UNCHANGED <<rateLimit, obs, unswept>>
       ELSE LET identifier == ApiKey(api.op, api.user)
                config == ApiConfig(api.op)
                r == checkRateLimit(rateLimit, now, identifier, config) IN
            /\ rateLimit' = r.map
            /\ obs' = Noted(obs, identifier, now, config, r.result)
            /\ unswept' = checkRateLimit(unswept, now, identifier, config).map
            /\ IF ~r.result.success
                 THEN Respond(429, {})
                 ELSE /\ api' = [api EXCEPT !.pc = IF api.op = "GET"
                                                     THEN "select"
                                                     ELSE "body"]
                      /\ UNCHANGED response
  /\ UNCHANGED <<now, last, reqs, served, log, integrations, sync>>

\* GET: the select has answered, with an error or with the user's rows.
ApiSelected(failed) ==
  /\ api.pc = "select"
  /\ IF failed
       THEN Respond(500, {})
       ELSE Respond(200, {Sanitized(row) : row \in
                            {x \in integrations : x.user = api.user}})
  /\ UNCHANGED <<rateLimit, now, last, obs, reqs, served, unswept, log,
                 integrations, sync>>

\* POST: request.json() has answered (or thrown); the fields are validated;
\* for shopify the handler awaits verifyConnection(), for tiktok_shop
\* connectionValid stays false.
ApiBody(thrown) ==
  /\ api.pc = "body"
  /\ IF thrown THEN Respond(500, {})
     ELSE IF api.body.platform = "" \/ api.body.shop_url = ""
               \/ api.body.access_token = "" THEN Respond(400, {})
     ELSE IF api.body.platform \notin {"shopify", "tiktok_shop"}
       THEN Respond(400, {})
     ELSE IF api.body.platform = "shopify"
       THEN api' = [api EXCEPT !.pc = "verify"] /\ UNCHANGED response
     ELSE Respond(400, {})
  /\ UNCHANGED <<rateLimit, now, last, obs, reqs, served, unswept, log,
                 integrations, sync>>

\* POST: verifyConnection() has answered true or false.
ApiVerified(connectionValid) ==
  /\ api.pc = "verify"
  /\ IF ~connectionValid
       THEN Respond(400, {})
       ELSE api' = [api EXCEPT !.pc = "existing"] /\ UNCHANGED response
  /\ UNCHANGED <<rateLimit, now, last, obs, reqs, served, unswept, log,
                 integrations, sync>>

\* POST: the lookup of an existing integration has answered: found (409),
\* or not found, which is also what an error of the lookup gives; or it has
\* thrown.
ApiExisting(outcome) ==
  /\ api.pc = "existing"
  /\ outcome = "found" =>
       \E x \in integrations :
         /\ x.user = api.user /\ x.platform = api.body.platform
         /\ x.shop_url = api.body.shop_url
  /\ IF outcome = "thrown" THEN Respond(500, {})
     ELSE IF outcome = "found" THEN Respond(409, {})
     ELSE api' = [api EXCEPT !.pc = "insert"] /\ UNCHANGED response
  /\ UNCHANGED <<rateLimit, now, last, obs, reqs, served, unswept, log,
                 integrations, sync>>

\* POST: the insert has answered, with the new row or with an error, or has
\* thrown.
ApiInserted(outcome) ==
  LET row == [id |-> Cardinality(integrations) + 1,
              user |-> api.user, platform |-> api.body.platform,
              shop_url |-> api.body.shop_url,
              access_token |-> api.body.access_token] IN
  /\ api.pc = "insert"
  /\ IF outcome = "ok"
       THEN /\ integrations' = integrations \cup {row}
            /\ Respond(201, {Sanitized(row)})
       ELSE /\ Respond(500, {})
            /\ UNCHANGED integrations
  /\ UNCHANGED <<rateLimit, now, last, obs, reqs, served, unswept, log, sync>>

(***************************************************************************)
(* POST /api/integrations/shopify/products.  The products the store       *)
(* returns are numbered 1 .. n; an entry of errors is kept as the number   *)
(* of the product it names, and upserted records, next to syncedCount,     *)
(* which products were counted as synced.  A response body is the record   *)
(* of its keys, a key of value undefined being left out as JSON does.      *)
(***************************************************************************)
NoSync == [pc |-> "idle"]

SyncConfig == [interval |-> 300000, uniqueTokenPerInterval |-> 3]
SyncInstants == {0} \cup {SyncConfig.interval + d : d \in 0 .. MaxOffset}
IntegrationIds == 0 .. 1
NoProducts == 0

\* An integrations table as the sync handler may find it.
StoredIntegrations ==
  {[id |-> 1, user |-> "u1", platform |-> "shopify",
    shop_url |-> "a.myshopify.com", access_token |-> "shpat_a"]}

\* return NextResponse.json(body, { status })
SyncRespond(status, body) ==
  sync' = [sync EXCEPT !.pc = "done", !.status = status, !.body = body]

\* A request arrives; the handler awaits createClient() and getUser().
SyncArrive(user, integration_id) ==
  /\ sync.pc \in {"idle", "done"}
  /\ served < MaxServedSync
  /\ served' = served + 1
  /\ sync' = [pc |-> "getUser", user |-> user,
              integration_id |-> integration_id, n |-> 0, i |-> 0,
              syncedCount |-> 0, errors |-> <<>>, upserted |-> <<>>,
              status |-> 0, body |-> [error |-> ""]]
  /\ UNCHANGED <<rateLimit, now, last, obs, reqs, unswept, log,
                 integrations, api, response>>

\* The auth check, the rate limit check, then await request.json().
SyncAfterGetUser ==
  /\ sync.pc = "getUser"
  /\ IF sync.user = NoUser
       THEN /\ SyncRespond(401, [error |-> "Unauthorized"])
            /\ UNCHANGED <<rateLimit, obs, unswept>>
       ELSE LET identifier == "shopify-sync-" \o sync.user
                r == checkRateLimit(rateLimit, now, identifier, SyncConfig)
            IN
            /\ rateLimit' = r.map
            /\ obs' = Noted(obs, identifier, now, SyncConfig, r.result)
            /\ unswept' =
                 checkRateLimit(unswept, now, identifier, SyncConfig).map
            /\ IF ~r.result.success
                 THEN SyncRespond(429, [error |-> "Too many sync requests"])
                 ELSE sync' = [sync EXCEPT !.pc = "body"]
  /\ UNCHANGED <<now, last, reqs, served, log, integrations, api, response>>

\* request.json() has answered (or thrown); integration_id is required;
\* then the handler awaits the lookup of the integration.
SyncBody(thrown) ==
  /\ sync.pc = "body"
  /\ IF thrown THEN SyncRespond(500, [error |-> "Failed to sync"])
     ELSE IF sync.integration_id = 0
       THEN SyncRespond(400, [error |-> "integration_id is required"])
     ELSE sync' = [sync EXCEPT !.pc = "lookup"]
  /\ UNCHANGED <<rateLimit, now, last, obs, reqs, served, unswept, log,
                 integrations, api, response>>

\* The lookup has answered with the user's shopify row of that id, or with
\* none or an error (404), or has thrown; then the handler awaits
\* getProducts(250).
SyncLookup(outcome) ==
  /\ sync.pc = "lookup"
  /\ IF outcome = "thrown" THEN SyncRespond(500, [error |-> "Failed to sync"])
     ELSE IF /\ outcome = "answered"
             /\ \E x \in integrations :
                  /\ x.id = sync.integration_id /\ x.user = sync.user
                  /\ x.platform = "shopify"
       THEN sync' = [sync EXCEPT !.pc = "fetch"]
     ELSE SyncRespond(404, [error |-> "Integration not found"])
  /\ UNCHANGED <<rateLimit, now, last, obs, reqs, served, unswept, log,
                 integrations, api, response>>

\* getProducts(250) has answered with n products, or has thrown; with no
\* product the handler answers at once, without a total.
SyncFetched(n, thrown) ==
  /\ sync.pc = "fetch"
  /\ IF thrown THEN SyncRespond(500, [error |-> "Failed to sync"])
     ELSE IF n = NoProducts
       THEN SyncRespond(200, [message |-> "No products found in Shopify store",
                              synced |-> 0])
     ELSE sync' = [sync EXCEPT !.pc = "loop", !.n = n, !.i = 0,
                               !.syncedCount = 0, !.errors = <<>>,
                               !.upserted = <<>>]
  /\ UNCHANGED <<rateLimit, now, last, obs, reqs, served, unswept, log,
                 integrations, api, response>>

\* One iteration of the loop, for product p: the upsert answers without
\* error (syncedCount++), answers with an error (errors.push), or something
\* in the try block throws (errors.push in the catch).
CountedMutDrop(s, p, outcome) ==
  IF outcome = "ok"
    THEN [s EXCEPT !.syncedCount = @ + 1, !.upserted = Append(@, p)]
    ELSE IF outcome = "error" THEN [s EXCEPT !.errors = Append(@, p)]
    ELSE s
Counted(s, p, outcome) ==
  IF outcome = "ok"
    THEN [s EXCEPT !.syncedCount = @ + 1, !.upserted = Append(@, p)]
    ELSE [s EXCEPT !.errors = Append(@, p)]

\* The iteration for the next product ends; after the last one the handler
\* awaits the update of last_sync_at.
SyncUpserted(outcome) ==
  /\ sync.pc = "loop"
  /\ sync.i < sync.n
  /\ sync' = [Counted(sync, sync.i + 1, outcome) EXCEPT
                !.i = sync.i + 1,
                !.pc = IF sync.i + 1 = sync.n THEN "update" ELSE "loop"]
  /\ UNCHANGED <<rateLimit, now, last, obs, reqs, served, unswept, log,
                 integrations, api, response>>

\* The update of last_sync_at has answered (its result is not read), or has
\* thrown; the handler answers with the counts.
SyncUpdated(thrown) ==
  /\ sync.pc = "update"
  /\ IF thrown THEN SyncRespond(500, [error |-> "Failed to sync"])
     ELSE IF Len(sync.errors) > 0
       THEN SyncRespond(200, [message |-> "Products synced successfully",
                              synced |-> sync.syncedCount,
                              total |-> sync.n,
                              errors |-> sync.errors])
     ELSE SyncRespond(200, [message |-> "Products synced successfully",
                            synced |-> sync.syncedCount,
                            total |-> sync.n])
  /\ UNCHANGED <<rateLimit, now, last, obs, reqs, served, unswept, log,
                 integrations, api, response>>

\* Issuing the await of step k of a route: a table query counts.
Issue(route, k) == IF route.steps[k].kind = "table" THEN 1 ELSE 0

Init ==
  /\ rateLimit = EmptyMap
  /\ now = 0
  /\ last = NoCall
  /\ obs = [i \in {} |-> NoObs]
  /\ reqs = [s \in Slots |-> Idle]
  /\ served = 0
  /\ unswept = EmptyMap
  /\ log = [i \in {} |-> NoLog]
  /\ integrations = {}
  /\ api = NoApi
  /\ response = NoResponse
  /\ sync = NoSync

\* The same, with the integrations table as earlier requests left it.
InitSync ==
  /\ rateLimit = EmptyMap
  /\ now = 0
  /\ last = NoCall
  /\ obs = [i \in {} |-> NoObs]
  /\ reqs = [s \in Slots |-> Idle]
  /\ served = 0
  /\ unswept = EmptyMap
  /\ log = [i \in {} |-> NoLog]
  /\ integrations \in SUBSET StoredIntegrations
  /\ api = NoApi
  /\ response = NoResponse
  /\ sync = NoSync

\* A caller invokes checkRateLimit directly.
Check(identifier, config) ==
  /\ Call(identifier, config)
  /\ UNCHANGED <<now, reqs, served, log, dataVars>>

\* Date.now() moves on.
Tick(t) ==
  /\ t > now
  /\ now' = t
  /\ last' = NoCall
  /\ UNCHANGED <<rateLimit, obs, reqs, served, unswept, log, dataVars>>

\* The cleanup timer's callback.
CleanupMutAll ==
  /\ rateLimit' = EmptyMap
  /\ last' = NoCall
  /\ UNCHANGED <<now, obs, reqs, served, unswept, log, dataVars>>
CleanupMutLive ==
  /\ rateLimit' = [i \in {k \in DOMAIN rateLimit :
                                now < rateLimit[k].resetTime - 1} |->
                     rateLimit[i]]
  /\ last' = NoCall
  /\ UNCHANGED <<now, obs, reqs, served, unswept, log, dataVars>>
Cleanup ==
  /\ rateLimit' = [i \in {k \in DOMAIN rateLimit :
                                ~Expired(rateLimit[k], now)} |->
                     rateLimit[i]]
  /\ last' = NoCall
  /\ UNCHANGED <<now, obs, reqs, served, unswept, log, dataVars>>

\* A request arrives: the handler starts and awaits createClient() and
\* supabase.auth.getUser().  It takes the lowest free slot.
Arrive(s, route, user) ==
  /\ reqs[s].pc \in {"idle", "done"}
  /\ \A z \in Slots : z < s => reqs[z].pc \notin {"idle", "done"}
  /\ served' = served + 1
  /\ reqs' = [reqs EXCEPT ![s] = [Idle EXCEPT !.pc = "getUser",
                                       !.route = route, !.user = user]]
  /\ UNCHANGED <<rateLimit, now, last, obs, unswept, log, dataVars>>

\* The handler has answered with this status.
Answer(q, status) ==
  [Idle EXCEPT !.pc = "done", !.status = status, !.tableOps = q.tableOps,
               !.admitted = q.admitted]

\* if (!rateLimitResult.success) return 429; otherwise the handler goes on
\* to the first await of its work.
GateMutOpen(q, rateLimitResult) ==
  [q EXCEPT !.pc = "work", !.step = 1, !.admitted = TRUE,
            !.tableOps = Issue(q.route, 1)]
Gate(q, rateLimitResult) ==
  IF ~rateLimitResult.success
    THEN Answer(q, 429)
    ELSE [q EXCEPT !.pc = "work", !.step = 1, !.admitted = TRUE,
                   !.tableOps = Issue(q.route, 1)]

\* (a handler that would check the rate limit before the auth check)
AfterGetUserMutLate(s) ==
  LET q == reqs[s]
      identifier == Key(q.route, q.user)
      r == checkRateLimit(rateLimit, now, identifier, q.route.config) IN
  /\ q.pc = "getUser"
  /\ rateLimit' = r.map
  /\ obs' = Noted(obs, identifier, now, q.route.config, r.result)
  /\ unswept' = checkRateLimit(unswept, now, identifier, q.route.config).map
  /\ reqs' = [reqs EXCEPT ![s] = IF q.user = NoUser THEN Answer(q, 401)
                                                    ELSE Gate(q, r.result)]
  /\ UNCHANGED <<now, served, last, log, dataVars>>

\* getUser() has answered: the auth check, then the rate limit check, then
\* either the 429 response or the first await of the handler's work.
AfterGetUser(s) ==
  LET q == reqs[s] IN
  /\ q.pc = "getUser"
  /\ IF q.user = NoUser
       THEN /\ reqs' = [reqs EXCEPT ![s] = Answer(q, 401)]
            /\ UNCHANGED <<rateLimit, obs, unswept>>
       ELSE LET identifier == Key(q.route, q.user)
                r == checkRateLimit(rateLimit, now, identifier, q.route.config)
            IN
            /\ rateLimit' = r.map
            /\ obs' = Noted(obs, identifier, now, q.route.config, r.result)
            /\ unswept' = checkRateLimit(unswept, now, identifier,
                                         q.route.config).map
            /\ reqs' = [reqs EXCEPT ![s] = Gate(q, r.result)]
  /\ UNCHANGED <<now, served, last, log, dataVars>>

\* (a handler that would give the place back when the request fails)
StepDoneMutRefund(s, code) ==
  LET q == reqs[s]
      k == Key(q.route, q.user) IN
  /\ q.pc = "work"
  /\ code \in q.route.steps[q.step].exit \cup {0}
  /\ IF code # 0
       THEN /\ reqs' = [reqs EXCEPT ![s] = Answer(q, code)]
            /\ rateLimit' = IF k \in DOMAIN rateLimit
                              THEN [rateLimit EXCEPT ![k].count = @ - 1]
                              ELSE rateLimit
     ELSE IF q.step = Len(q.route.steps)
       THEN reqs' = [reqs EXCEPT ![s] = Answer(q, q.route.ok)]
            /\ UNCHANGED rateLimit
     ELSE reqs' = [reqs EXCEPT ![s].step = q.step + 1,
                               ![s].tableOps = @ + Issue(q.route, q.step + 1)]
          /\ UNCHANGED rateLimit
  /\ UNCHANGED <<now, last, obs, served, unswept, log, dataVars>>

\* The awaited step of the handler's work has finished: the handler answers
\* with one of the step's exits (code), or goes on to its next await
\* (code 0), or, after its last step, answers its success status.
StepDone(s, code) ==
  LET q == reqs[s] IN
  /\ q.pc = "work"
  /\ code \in q.route.steps[q.step].exit \cup {0}
  /\ IF code # 0
       THEN reqs' = [reqs EXCEPT ![s] = Answer(q, code)]
     ELSE IF q.step = Len(q.route.steps)
       THEN reqs' = [reqs EXCEPT ![s] = Answer(q, q.route.ok)]
     ELSE reqs' = [reqs EXCEPT ![s].step = q.step + 1,
                               ![s].tableOps = @ + Issue(q.route, q.step + 1)]
  /\ UNCHANGED <<rateLimit, now, last, obs, served, unswept, log, dataVars>>

Next ==
  \/ \E i \in Identifiers, c \in Configs : Check(i, c)
  \/ \E t \in Instants : Tick(t)
  \/ Cleanup

Spec == Init /\ [][Next]_vars

\* The server under requests to POST /api/shipments/[id]/events, of one
\* user or of nobody.
NextEvents ==
  \/ \E s \in Slots, u \in {"u1", NoUser} :
       /\ served < MaxServed
       /\ Arrive(s, EventsPost, u)
  \/ \E s \in Slots : AfterGetUser(s)
  \/ \E s \in Slots, c \in {0, 400, 404, 500} : StepDone(s, c)
  \/ \E t \in RouteInstants : Tick(t)
  \/ Cleanup

SpecEvents == Init /\ [][NextEvents]_vars

\* The server under requests to POST /api/shipments, which passes an entry
\* of RATE_LIMITS, served one at a time.
NextShipments ==
  \/ \E u \in Users \cup {NoUser} :
       /\ served < MaxServedTable
       /\ Arrive(1, ShipmentsPost, u)
  \/ AfterGetUser(1)
  \/ \E c \in {0, 400, 404, 409, 500} : StepDone(1, c)
  \/ \E t \in RouteInstants : Tick(t)
  \/ Cleanup

SpecShipments == Init /\ [][NextShipments]_vars

\* Policies with interval > 0 and quota >= 1, and the times of the clock
\* under them.
FixedConfigs ==
  [interval : 1 .. MaxBurstInterval, uniqueTokenPerInterval : 1 .. MaxQuota]
BurstInstants == 0 .. MaxBurstTime

\* The caller's log after a call at time t.
Logged(l, identifier, config, t, result) ==
  [i \in DOMAIN l \cup {identifier} |->
     IF i # identifier THEN l[i]
     ELSE [config |-> config,
           admits |-> IF result.success
                        THEN Append((IF i \in DOMAIN l THEN l[i] ELSE NoLog).admits, t)
                        ELSE (IF i \in DOMAIN l THEN l[i] ELSE NoLog).admits]]

\* A caller invokes checkRateLimit for an identifier, always under the
\* policy it first used for it.
CheckFixed(identifier, config) ==
  /\ identifier \in DOMAIN log => log[identifier].config = config
  /\ Call(identifier, config)
  /\ log' = Logged(log, identifier, config, now,
                   checkRateLimit(rateLimit, now, identifier, config).result)
  /\ UNCHANGED <<now, reqs, served, dataVars>>

NextFixed ==
  \/ \E c \in FixedConfigs : CheckFixed("A", c)
  \/ \E t \in BurstInstants : Tick(t)
  \/ Cleanup

SpecFixed == Init /\ [][NextFixed]_vars

\* One identifier always checked under its one policy, next to another
\* checked under any policy.
NextMixed ==
  \/ \E c \in FixedConfigs : CheckFixed("A", c)
  \/ \E c \in Configs : Check("B", c)
  \/ \E t \in Instants : Tick(t)
  \/ Cleanup

SpecMixed == Init /\ [][NextMixed]_vars

\* The same, when the clock keeps advancing (Date.now() moves on as long as
\* the process runs) and the caller keeps checking its identifier.
SpecFixedFair ==
  /\ Init /\ [][NextFixed]_vars
  /\ WF_vars(\E t \in BurstInstants : Tick(t))
  /\ WF_vars(\E c \in FixedConfigs : CheckFixed("A", c))

\* GET /api/shipments: after the gate the query parameters are validated
\* (a synchronous step, "sync", that may answer 400), then the shipments
\* are read.
ShipmentsGet ==
  [prefix |-> "shipments-get-",
   config |-> RATE_LIMITS.SHIPMENTS_READ,
   steps |-> <<Step("sync", {400}), Step("table", {400, 404, 409, 500})>>,
   ok |-> 200]

\* GET /api/carriers: createClient(), then the carriers are read.  The
\* handler has no getUser() and no checkRateLimit().  Its success path calls
\* .then on the NextResponse that successResponse returns, which throws into
\* the catch block.
CarriersGet ==
  [prefix |-> "carriers",
   steps |-> <<Step("table", {400, 404, 409, 500})>>,
   ok |-> 500]

\* A request arrives at a handler that goes from createClient() straight to
\* its work.
ArriveOpen(s, route) ==
  /\ reqs[s].pc \in {"idle", "done"}
  /\ \A z \in Slots : z < s => reqs[z].pc \notin {"idle", "done"}
  /\ served' = served + 1
  /\ reqs' = [reqs EXCEPT ![s] = [Idle EXCEPT !.pc = "work", !.route = route,
                                               !.step = 1,
                                               !.tableOps = Issue(route, 1)]]
  /\ UNCHANGED <<rateLimit, now, last, obs, unswept, log, dataVars>>

\* The server under requests to the documented endpoints GET /api/carriers
\* and GET /api/shipments.
NextDocumented ==
  \/ \E s \in Slots, u \in {"u1", NoUser} :
       /\ served < MaxServedDocumented
       /\ Arrive(s, ShipmentsGet, u)
  \/ \E s \in Slots :
       /\ served < MaxServedDocumented
       /\ ArriveOpen(s, CarriersGet)
  \/ \E s \in Slots : AfterGetUser(s)
  \/ \E s \in Slots, c \in {0, 400, 404, 409, 500} : StepDone(s, c)
  \/ \E t \in RouteInstants : Tick(t)
  \/ Cleanup

SpecDocumented == Init /\ [][NextDocumented]_vars

\* The prefixes of the identifiers that the route handlers hand to
\* checkRateLimit, each followed by user.id.
Prefixes ==
  {"events-post-", "shipments-get-", "shipments-post-", "shipment-get-",
   "shipment-put-", "shipment-delete-", "dashboard-stats-", "products-get-",
   "shopify-sync-", "integrations-get-", "integrations-post-",
   "product-sync-", "product-links-get-", "product-links-post-"}

\* Strings in the place of user.id: plain ids, and ids that begin like the
\* tail of a prefix.
UserIds == {"u1", "u2", "get-u1", "s-get-u1", "sync-u1", "links-get-u1"}

\* Two handlers of one file, with keys `shipments-get-` and
\* `shipments-post-`, serving two users, one request at a time.
KeyedRoutes == {ShipmentsGet, ShipmentsPost}

NextKeys ==
  \/ \E r \in KeyedRoutes, u \in Users :
       /\ served < MaxServedKeys
       /\ Arrive(1, r, u)
  \/ AfterGetUser(1)
  \/ \E c \in {0, 400, 404, 409, 500} : StepDone(1, c)
  \/ \E t \in RouteInstants : Tick(t)
  \/ Cleanup

SpecKeys == Init /\ [][NextKeys]_vars

\* The server under requests to GET and POST /api/integrations, one at a
\* time.
NextIntegrations ==
  \/ \E op \in {"GET", "POST"}, u \in Users \cup {NoUser}, b \in Bodies :
       ApiArrive(op, u, b)
  \/ ApiAfterGetUser
  \/ \E failed \in BOOLEAN : ApiSelected(failed)
  \/ \E thrown \in BOOLEAN : ApiBody(thrown)
  \/ \E connectionValid \in BOOLEAN : ApiVerified(connectionValid)
  \/ \E outcome \in {"found", "none", "thrown"} : ApiExisting(outcome)
  \/ \E outcome \in {"ok", "error", "thrown"} : ApiInserted(outcome)
  \/ \E t \in RouteInstants : Tick(t)
  \/ Cleanup

SpecIntegrations == Init /\ [][NextIntegrations]_vars

\* The server under requests to POST /api/integrations/shopify/products,
\* one at a time.
NextSync ==
  \/ \E u \in Users \cup {NoUser}, id \in IntegrationIds : SyncArrive(u, id)
  \/ SyncAfterGetUser
  \/ \E thrown \in BOOLEAN : SyncBody(thrown)
  \/ \E outcome \in {"answered", "error", "thrown"} : SyncLookup(outcome)
  \/ \E n \in NoProducts .. MaxProducts, thrown \in BOOLEAN :
       SyncFetched(n, thrown)
  \/ \E outcome \in {"ok", "error", "thrown"} : SyncUpserted(outcome)
  \/ \E thrown \in BOOLEAN : SyncUpdated(thrown)
  \/ \E t \in SyncInstants : Tick(t)
  \/ Cleanup

SpecSync == InitSync /\ [][NextSync]_vars

\* config = { interval: 60000, uniqueTokenPerInterval: 10 }: the default
\* value of checkRateLimit's second parameter.
DefaultConfigMutQuota == [interval |-> 60000, uniqueTokenPerInterval |-> 11]
DefaultConfig == [interval |-> 60000, uniqueTokenPerInterval |-> 10]

\* A caller invokes checkRateLimit(identifier), passing no config.
CheckDefault(identifier) ==
  /\ Call(identifier, DefaultConfig)
  /\ UNCHANGED <<now, reqs, served, log, dataVars>>

\* Times the clock may show under the default policy.
DefaultInstants == {0} \cup {DefaultConfig.interval + d : d \in 0 .. MaxOffset}

\* Callers that pass no config.
NextDefault ==
  \/ \E i \in Identifiers : CheckDefault(i)
  \/ \E t \in DefaultInstants : Tick(t)
  \/ Cleanup

SpecDefault == Init /\ [][NextDefault]_vars

\* Identifiers a caller may pass, the empty string among them.
AnyIdentifiers == {"", "A"}

\* Callers that pass any string and any integers.
NextAny ==
  \/ \E i \in AnyIdentifiers, c \in Configs : Check(i, c)
  \/ \E t \in Instants : Tick(t)
  \/ Cleanup

SpecAny == Init /\ [][NextAny]_vars

(***************************************************************************)
(* Properties.  quota is the uniqueTokenPerInterval of the call's policy;  *)
(* last is the call of checkRateLimit a direct caller has just made, with  *)
(* the window of its identifier before and after the call and what the     *)
(* observer had seen of that identifier before the call.                   *)
(***************************************************************************)
quota == last.config.uniqueTokenPerInterval
interval == last.config.interval
\* The call was made no later than the end of the window the observer saw.
InsideSeen == last.seen.open /\ last.at <= last.seen.t0 + last.seen.interval

\* C1 (quota ceiling): under a policy with interval > 0 and quota >= 1, a
\* call made inside a window in which quota or more calls have already been
\* admitted returns success = false with remaining = 0.
QuotaCeiling ==
  (last.made /\ interval > 0 /\ quota >= 1 /\ InsideSeen
     /\ last.seen.n >= quota)
    => (~last.result.success /\ last.result.remaining = 0)

WitnessQuotaCeiling ==
  /\ last.made /\ interval > 0 /\ quota >= 2 /\ InsideSeen
  /\ last.seen.n = quota
  /\ ~last.result.success

\* C2 (no increment on reject): a rejected call leaves the identifier's
\* window (count and resetTime) as it was and returns remaining = 0; the
\* first call after the window expired is admitted with count = 1 and
\* remaining = quota - 1, whatever the old count was.
NoIncrementOnReject ==
  last.made =>
    /\ ~last.result.success =>
         (last.after = last.before /\ last.result.remaining = 0)
    /\ (last.before.present /\ last.at > last.before.resetTime) =>
         /\ last.result.success
         /\ last.after.count = 1
         /\ last.result.remaining = quota - 1

WitnessNoIncrementOnReject ==
  /\ last.made /\ quota >= 1
  /\ last.before.present /\ last.before.count >= quota
  /\ last.at > last.before.resetTime
  /\ last.result.success /\ last.after.count = 1

\* C3 (window reset): the first call for an identifier, at t0, creates the
\* window count = 1, resetTime = t0 + interval and is admitted with
\* remaining = quota - 1; so does every call made strictly after the end
\* t0 + interval of the window seen; a call made strictly before that end
\* keeps the window's resetTime and does not lower its count.
WindowReset ==
  last.made =>
    /\ (~last.seen.open \/ last.at > last.seen.t0 + last.seen.interval) =>
         /\ last.result.success
         /\ last.result.remaining = quota - 1
         /\ last.after = Window(1, last.at + interval)
    /\ (last.seen.open /\ last.at < last.seen.t0 + last.seen.interval) =>
         /\ last.before.present
         /\ last.after.resetTime = last.seen.t0 + last.seen.interval
         /\ last.after.count =
              last.seen.n + (IF last.result.success THEN 1 ELSE 0)

WitnessWindowReset ==
  /\ last.made /\ last.seen.open /\ last.seen.n >= 2
  /\ last.at > last.seen.t0 + last.seen.interval
  /\ last.before.present
  /\ last.after = Window(1, last.at + interval)

\* C4 (independence): a call for one identifier leaves the window of every
\* other identifier as it was, and the first call for an identifier is
\* admitted whatever the windows of the others are.
Independence ==
  [][(last'.made /\ last' # last) =>
       /\ \A i \in Identifiers :
            i # last'.id => Get(rateLimit', i) = Get(rateLimit, i)
       /\ ~last'.before.present => last'.result.success]_vars

WitnessIndependence ==
  /\ last.made /\ last.id = "B" /\ ~last.before.present
  /\ last.result.success
  /\ Get(rateLimit, "A").present /\ Get(rateLimit, "A").count >= 2
  /\ now <= Get(rateLimit, "A").resetTime

\* C5 (remaining monotonicity): under a policy with quota >= 1, the k-th
\* call admitted in a window returns remaining = quota - k, which is never
\* negative: quota - 1, quota - 2, ..., 0.
RemainingMonotone ==
  (last.made /\ quota >= 1 /\ last.result.success) =>
    /\ last.result.remaining =
         quota - (IF InsideSeen THEN last.seen.n + 1 ELSE 1)
    /\ last.result.remaining >= 0

WitnessRemainingMonotone ==
  /\ last.made /\ quota >= 2 /\ last.result.success
  /\ InsideSeen /\ last.seen.n = quota - 1
  /\ last.result.remaining = 0

\* C6 (policy table): a handler that passes an entry of RATE_LIMITS admits
\* at most `requests` requests of one user per window.
TableQuotaCeiling ==
  \A u \in Users :
    Seen(obs, Key(ShipmentsPost, u)).n <= ShipmentsPost.config.requests

\* C7 (linearizable admission): whatever the interleaving of the handlers,
\* the count of a stored window equals the number of requests admitted in
\* it, and that number never exceeds the quota the handler passes.
LinearizableAdmission ==
  \A u \in Users :
    LET w == Get(rateLimit, Key(EventsPost, u))
        o == Seen(obs, Key(EventsPost, u)) IN
    /\ w.present => (w.count = o.n /\ w.resetTime = o.t0 + o.interval)
    /\ o.n <= EventsPost.config.uniqueTokenPerInterval

WitnessLinearizableAdmission ==
  /\ \A s \in {1, 2} :
       /\ reqs[s].pc = "work" /\ reqs[s].route = EventsPost
       /\ reqs[s].user = "u1"
  /\ Get(rateLimit, Key(EventsPost, "u1")).count =
       EventsPost.config.uniqueTokenPerInterval

\* C8 (admission gate): when the rate limit check of a handler rejects (the
\* map is left as it was), the handler answers 429 at once and has issued no
\* table query; when it admits, the handler goes on to its work.
AdmissionGate ==
  [][\A s \in Slots :
       (reqs[s].pc = "getUser" /\ reqs[s].user # NoUser
          /\ reqs'[s] # reqs[s]) =>
         IF rateLimit' = rateLimit
           THEN /\ reqs'[s].pc = "done" /\ reqs'[s].status = 429
                /\ reqs'[s].tableOps = 0
           ELSE /\ reqs'[s].pc = "work" /\ reqs'[s].step = 1
                /\ reqs'[s].status = 0]_vars

WitnessAdmissionGate ==
  \E s, z \in Slots :
    /\ reqs[s].pc = "done" /\ reqs[s].status = 429 /\ reqs[s].tableOps = 0
    /\ reqs[z].pc = "work" /\ reqs[z].tableOps >= 1

NonPositiveQuotaRejects ==
  (last.made /\ quota <= 0) => ~last.result.success

\* C11 (non-positive interval): under a policy with interval <= 0 and
\* quota >= 1, on an identifier whose calls so far were made under such an
\* interval, every call is handled as a fresh window: admitted, count = 1,
\* remaining = quota - 1, also for several calls at one timestamp.
NonPositiveIntervalFresh ==
  (last.made /\ interval <= 0 /\ quota >= 1
     /\ (last.seen.open => last.seen.interval <= 0)) =>
    /\ last.result.success
    /\ last.after.count = 1
    /\ last.result.remaining = quota - 1

\* C12 (sweep postcondition): a cleanup pass at time now deletes exactly the
\* windows with resetTime < now; every window with resetTime >= now stays
\* with its count and resetTime, and none with resetTime < now is left.
SweepPostcondition ==
  [][Cleanup =>
       /\ DOMAIN rateLimit' =
            {i \in DOMAIN rateLimit : ~(rateLimit[i].resetTime < now)}
       /\ \A i \in DOMAIN rateLimit :
            rateLimit[i].resetTime >= now =>
              /\ i \in DOMAIN rateLimit'
              /\ rateLimit'[i] = rateLimit[i]
       /\ \A i \in DOMAIN rateLimit' : ~(rateLimit'[i].resetTime < now')]_vars

\* The pass has deleted the window of A and kept the live window of B.
WitnessSweepPostcondition ==
  /\ ~last.made
  /\ "A" \in DOMAIN unswept /\ "A" \notin DOMAIN rateLimit
  /\ unswept["A"].resetTime < now
  /\ "B" \in DOMAIN rateLimit /\ rateLimit["B"].count = 2
  /\ rateLimit["B"].resetTime >= now

\* C13 (sweep transparency): whatever cleanup passes have run, the next
\* call of checkRateLimit, for any identifier and any policy, returns the
\* same success and remaining as it does in the run without cleanup.
SweepTransparency ==
  \A i \in Identifiers, c \in Configs :
    checkRateLimit(rateLimit, now, i, c).result =
      checkRateLimit(unswept, now, i, c).result

\* A call made for an identifier whose window a pass had deleted, while the
\* run without cleanup still holds a window that a pass has deleted here.
WitnessSweepTransparency ==
  /\ last.made /\ ~last.before.present /\ last.seen.open
  /\ last.result.success
  /\ Get(unswept, last.id) = Get(rateLimit, last.id)
  /\ \E i \in DOMAIN unswept : i \notin DOMAIN rateLimit

\* C14 (policy fallback): a call that passes no config returns a result
\* object as under the policy interval 60000 ms, quota 10: the first call
\* opens a window of 60000 ms and is admitted with remaining 9, the k-th
\* call admitted in the window returns 10 - k, and the 11th call in the
\* window is rejected with remaining 0.
PolicyFallback ==
  last.made =>
    /\ DOMAIN last.result = {"success", "remaining"}
    /\ ~last.seen.open =>
         /\ last.result.success /\ last.result.remaining = 9
         /\ last.after = Window(1, last.at + 60000)
    /\ (last.seen.open /\ last.at <= last.seen.t0 + 60000) =>
         IF last.seen.n < 10
           THEN /\ last.result.success
                /\ last.result.remaining = 10 - (last.seen.n + 1)
           ELSE /\ ~last.result.success /\ last.result.remaining = 0

\* The 11th call of a window, made at its last instant, is rejected.
WitnessPolicyFallback ==
  /\ last.made /\ last.seen.open /\ last.seen.t0 = 0 /\ last.at = 60000
  /\ last.seen.n = 10
  /\ ~last.result.success /\ last.result.remaining = 0

\* C15 (no error): for every identifier, the empty string included, and
\* every integer interval and quota, zero and negative included, a call of
\* checkRateLimit in any reachable state of the map returns an object with
\* exactly the fields success (a boolean) and remaining (an integer).
NeverThrows ==
  \A i \in AnyIdentifiers, c \in Configs :
    LET r == checkRateLimit(rateLimit, now, i, c) IN
    /\ DOMAIN r.result = {"success", "remaining"}
    /\ r.result.success \in BOOLEAN
    /\ r.result.remaining \in Int

\* A call for the empty string under a negative interval and a negative
\* quota has been rejected on a stored window.
WitnessNeverThrows ==
  /\ last.made /\ last.id = "" /\ interval < 0 /\ quota < 0
  /\ last.before.present
  /\ ~last.result.success

\* C16 (documented endpoints are gated): no request to a documented
\* endpoint has issued a table query without having passed the auth check
\* and the checkRateLimit call of its handler.
DocumentedEndpointsGated ==
  \A s \in Slots : reqs[s].tableOps > 0 => reqs[s].admitted

\* The number of admitted checks of the log whose timestamps fall in the
\* span from s to s + interval of the log's policy.
InSpan(l, s) ==
  Cardinality({k \in DOMAIN l.admits :
                 s <= l.admits[k] /\ l.admits[k] <= s + l.config.interval})

\* C17 (burst bound): for one identifier under a fixed policy with
\* interval I > 0 and quota q >= 1, the admitted checks whose timestamps
\* fall inside any rolling span of length I number at most 2 * q.
BurstBound ==
  \A i \in DOMAIN log : \A s \in BurstInstants :
    InSpan(log[i], s) <= 2 * log[i].config.uniqueTokenPerInterval

\* A span across a window boundary holds more admitted checks than the
\* quota.
WitnessBurstBound ==
  \E i \in DOMAIN log : \E s \in BurstInstants :
    /\ InSpan(log[i], s) > log[i].config.uniqueTokenPerInterval
    /\ log[i].config.interval = 2
    /\ last.made /\ last.id = i /\ last.result.success

\* The state of an identifier with window w at time t under quota q:
\* absent, expired (resetTime passed), active (count < q, not expired) or
\* exhausted (count >= q, not expired).
StateOf(w, t, q) ==
  IF ~w.present THEN "absent"
  ELSE IF t > w.resetTime THEN "expired"
  ELSE IF w.count < q THEN "active"
  ELSE "exhausted"

stateBefore == StateOf(last.before, last.at, quota)
stateAfter == StateOf(last.after, last.at, quota)

\* C18 as stated (state machine): under a policy with quota >= 1 a check on
\* an absent or expired identifier moves it to active with count = 1; an
\* admitted check on an active identifier leaves it active or moves it to
\* exhausted exactly when count reaches quota; an exhausted identifier is
\* rejected and left as it is.
StateMachineToActive ==
  (last.made /\ quota >= 1) =>
    /\ stateBefore \in {"absent", "expired"} =>
         (stateAfter = "active" /\ last.after.count = 1)
    /\ stateBefore = "active" =>
         /\ last.result.success
         /\ last.after.count = last.before.count + 1
         /\ stateAfter = IF last.after.count = quota THEN "exhausted"
                                                     ELSE "active"
    /\ stateBefore = "exhausted" =>
         (~last.result.success /\ last.after = last.before)

\* C18 as amended: a check on an absent or expired identifier is admitted
\* and stores count = 1, resetTime = now + interval, which leaves the
\* identifier active when quota >= 2 and exhausted at once when quota = 1
\* (and expired at once when interval < 0); an admitted check on an active
\* identifier adds 1 to count, keeps resetTime and leaves it active, or
\* exhausted exactly when count reaches quota; a check on an exhausted
\* identifier is rejected and changes nothing.
StateMachine ==
  (last.made /\ quota >= 1) =>
    /\ stateBefore \in {"absent", "expired"} =>
         /\ last.result.success
         /\ last.after = Window(1, last.at + interval)
         /\ stateAfter = IF interval < 0 THEN "expired"
                         ELSE IF quota = 1 THEN "exhausted"
                         ELSE "active"
    /\ stateBefore = "active" =>
         /\ last.result.success
         /\ last.after.count = last.before.count + 1
         /\ last.after.resetTime = last.before.resetTime
         /\ stateAfter = IF last.after.count = quota THEN "exhausted"
                                                     ELSE "active"
    /\ stateBefore = "exhausted" =>
         (~last.result.success /\ last.after = last.before)

\* The first check under quota 1 has left the identifier exhausted.
WitnessStateMachine ==
  /\ last.made /\ quota = 1 /\ interval > 0
  /\ stateBefore = "absent" /\ last.result.success
  /\ stateAfter = "exhausted"

\* C19 (no terminal state): under a policy with quota >= 1 and
\* interval > 0, when the clock keeps advancing and the identifier keeps
\* being checked, every exhausted window, with resetTime r, is followed by
\* a check admitted after r.  The clock of the model stops at MaxBurstTime,
\* so the windows are those with r < MaxBurstTime.
NoTerminalState ==
  \A r \in 0 .. MaxBurstTime - 1 :
    (/\ "A" \in DOMAIN rateLimit
     /\ rateLimit["A"].resetTime = r
     /\ rateLimit["A"].count >= log["A"].config.uniqueTokenPerInterval)
      ~> (/\ last.made /\ last.id = "A" /\ last.result.success
          /\ last.at > r)

\* A check admitted after an exhausted window, for the second time or more.
WitnessNoTerminalState ==
  /\ last.made /\ last.id = "A" /\ last.result.success
  /\ stateBefore = "expired" /\ last.before.count >= quota
  /\ Len(log["A"].admits) >= 2 * quota + 1

\* C20 (tiers of the policy table): every entry of RATE_LIMITS has
\* interval > 0 and requests > 0; among the entries of 60000 ms,
\* AUTH.requests <= the requests of each write entry < DEFAULT.requests <=
\* the requests of each read entry; SYNC has an interval longer than
\* 60000 ms and the smallest requests of the table.  The policy that a
\* request to POST /api/shipments has passed is the table's write entry.
TableTiers ==
  LET T == RATE_LIMITS
      Writes == {T.SHIPMENTS_WRITE, T.INTEGRATIONS_WRITE}
      Reads == {T.SHIPMENTS_READ, T.INTEGRATIONS_READ}
      PerMinute == {T.AUTH, T.DEFAULT} \cup Writes \cup Reads IN
  /\ \A k \in DOMAIN T : T[k].interval > 0 /\ T[k].requests > 0
  /\ \A e \in PerMinute : e.interval = 60000
  /\ \A w \in Writes :
       T.AUTH.requests <= w.requests /\ w.requests < T.DEFAULT.requests
  /\ \A r \in Reads : T.DEFAULT.requests <= r.requests
  /\ T.SYNC.interval > 60000
  /\ \A k \in DOMAIN T : T.SYNC.requests <= T[k].requests
  /\ \A s \in Slots :
       reqs[s].pc = "work" => reqs[s].route.config = T.SHIPMENTS_WRITE

\* A handler has passed the SHIPMENTS_WRITE entry of the table to
\* checkRateLimit and gone on to its work.
WitnessTableTiers ==
  /\ reqs[1].pc = "work" /\ reqs[1].admitted
  /\ reqs[1].route.config = RATE_LIMITS.SHIPMENTS_WRITE
  /\ Key(ShipmentsPost, reqs[1].user) \in DOMAIN rateLimit

\* C21 (counter bounds): every stored window has count >= 1, whatever the
\* policies of the calls; the count of an identifier whose checks all use
\* one policy with quota >= 1 never exceeds that quota.
CounterBounds ==
  \A i \in DOMAIN rateLimit :
    /\ rateLimit[i].count >= 1
    /\ i \in DOMAIN log =>
         rateLimit[i].count <= log[i].config.uniqueTokenPerInterval

\* The identifier under one policy has reached its quota of 2 while the
\* other has a window made under a quota of 0 or less.
WitnessCounterBounds ==
  /\ "A" \in DOMAIN rateLimit /\ rateLimit["A"].count = 2
  /\ log["A"].config.uniqueTokenPerInterval = 2
  /\ last.made /\ last.id = "B" /\ quota <= 0 /\ last.result.success
  /\ rateLimit["B"].count = 1

\* C22 (result range): under a policy with quota >= 1 every result has
\* 0 <= remaining <= quota - 1; a rejected call returns remaining = 0; an
\* admitted call returns remaining = quota - count, count being the
\* window's count after the call.
ResultRange ==
  (last.made /\ quota >= 1) =>
    /\ 0 <= last.result.remaining /\ last.result.remaining <= quota - 1
    /\ ~last.result.success => last.result.remaining = 0
    /\ last.result.success =>
         last.result.remaining = quota - last.after.count

\* The second call admitted in a window, under a quota of 2 or more.
WitnessResultRange ==
  /\ last.made /\ quota >= 2 /\ last.result.success
  /\ last.before.present /\ last.before.count = 1 /\ last.after.count = 2
  /\ last.result.remaining = quota - 2

\* C23 (reset time fixed at creation): a check on a live window, admitted
\* or rejected, under whatever interval, leaves the window's resetTime as
\* it was; a check changes resetTime only by replacing a window it finds
\* expired.
ResetTimeFixed ==
  (last.made /\ last.before.present) =>
    /\ last.at <= last.before.resetTime =>
         last.after.resetTime = last.before.resetTime
    /\ last.after.resetTime # last.before.resetTime =>
         (last.at > last.before.resetTime /\ last.after.count = 1)

\* A check admitted on a live window under an interval other than the one
\* the window was created with.
WitnessResetTimeFixed ==
  /\ last.made /\ last.before.present /\ InsideSeen
  /\ last.seen.interval # interval
  /\ last.at + interval # last.before.resetTime
  /\ last.result.success
  /\ last.after.resetTime = last.before.resetTime

KeysCoincide ==
  {x \in (Prefixes \X UserIds) \X (Prefixes \X UserIds) :
     /\ x[1] # x[2]
     /\ Key([prefix |-> x[1][1]], x[1][2]) = Key([prefix |-> x[2][1]], x[2][2])}

\* C25 (keys are injective): the keys that the handlers build from their
\* prefix and the user id never coincide for two different operations or
\* two different users; the rate limit check of a request changes the
\* window of its own operation and user, and the window of no other
\* operation and of no other user.
KeysInjective ==
  [][\A s \in Slots :
       (reqs[s].pc = "getUser" /\ reqs[s].user # NoUser
          /\ reqs'[s] # reqs[s]) =>
         /\ KeysCoincide = {}
         /\ reqs'[s].pc = "work" =>
              Get(rateLimit', Key(reqs[s].route, reqs[s].user)) #
                Get(rateLimit, Key(reqs[s].route, reqs[s].user))
         /\ \A r \in KeyedRoutes, u \in Users :
              (r # reqs[s].route \/ u # reqs[s].user) =>
                Get(rateLimit', Key(r, u)) = Get(rateLimit, Key(r, u))]_vars

\* One user has used one operation twice and the other once, and the
\* other user has used one operation once.
WitnessKeysInjective ==
  /\ Get(rateLimit, Key(ShipmentsGet, "u1")).count = 2
  /\ Get(rateLimit, Key(ShipmentsPost, "u1")).count = 1
  /\ Get(rateLimit, Key(ShipmentsGet, "u2")).count = 1
  /\ ~Get(rateLimit, Key(ShipmentsPost, "u2")).present

\* C26 (charged before judged): the rate limit check of an admitted request
\* adds exactly one to the count of the user's window (or opens it with
\* count 1), and nothing the handler does afterwards, whatever the outcome
\* of the request (400, 404, 500, 201), changes the map: a failed request
\* is not refunded.
ChargedOnce ==
  [][\A s \in Slots :
       LET k == Key(reqs[s].route, reqs[s].user)
           w == Get(rateLimit, k) IN
       /\ (reqs[s].pc = "getUser" /\ reqs'[s].pc = "work") =>
            Get(rateLimit', k).count =
              IF w.present /\ now <= w.resetTime THEN w.count + 1 ELSE 1
       /\ (reqs[s].pc = "work" /\ reqs'[s] # reqs[s]) =>
            rateLimit' = rateLimit]_vars

\* Two admitted requests have failed, with 404 and with 400, and the
\* window still counts both.
WitnessChargedOnce ==
  /\ reqs[1].pc = "done" /\ reqs[1].admitted /\ reqs[1].status = 404
  /\ reqs[2].pc = "done" /\ reqs[2].admitted /\ reqs[2].status = 400
  /\ served = 2
  /\ Get(rateLimit, Key(EventsPost, "u1")).count = 2

\* C27 (windows move forward): under an interval > 0, a call that creates
\* or replaces the window of an identifier sets a resetTime strictly later
\* than the time of the call and strictly later than the resetTime of the
\* window it replaces, be that window still stored or already deleted by a
\* cleanup pass.
WindowsMoveForward ==
  (last.made /\ interval > 0 /\ last.after.count = 1
     /\ last.after # last.before) =>
    /\ last.after.resetTime > last.at
    /\ last.before.present => last.after.resetTime > last.before.resetTime
    /\ last.seen.open =>
         last.after.resetTime > last.seen.t0 + last.seen.interval

\* A window that had admitted two calls is replaced after its end.
WitnessWindowsMoveForward ==
  /\ last.made /\ interval > 0
  /\ last.before.present /\ last.before.count = 2
  /\ last.at > last.before.resetTime
  /\ last.after.count = 1
  /\ last.after.resetTime > last.before.resetTime

\* C28 (access tokens are never returned): every integration object in a
\* response of GET /api/integrations or of a successful POST
\* /api/integrations has access_token = '****', whatever token is stored
\* or was submitted.
TokensMasked ==
  \A o \in response.objects : o.access_token = Mask

\* A GET answers with the masked rows of a user who has a token stored.
WitnessTokensMasked ==
  /\ api.pc = "done" /\ api.op = "GET" /\ response.status = 200
  /\ response.objects # {}
  /\ \E x \in integrations : x.user = api.user /\ x.access_token = "shpat_b"

\* The number of entries of a list that name product p.
Entries(list, p) == Cardinality({k \in DOMAIN list : list[k] = p})
\* The number of error entries of a response body.
ErrorEntries(body) ==
  IF "errors" \in DOMAIN body THEN Len(body.errors) ELSE 0
\* The sync has answered with the counts of a store of n >= 1 products.
SyncAnswered == sync.pc = "done" /\ sync.status = 200 /\ sync.n >= 1

\* C29 (Shopify product sync accounts for every product): when the store
\* returns n >= 1 products, the loop ends with each product counted exactly
\* once, in synced or as one entry of errors, and the response has
\* total = n and synced + number of error entries = n.
ProductsAccounted ==
  /\ (sync.pc = "update" \/ SyncAnswered) =>
       /\ sync.i = sync.n
       /\ sync.syncedCount = Len(sync.upserted)
       /\ sync.syncedCount + Len(sync.errors) = sync.n
       /\ \A p \in 1 .. sync.n :
            Entries(sync.upserted, p) + Entries(sync.errors, p) = 1
  /\ SyncAnswered =>
       /\ "total" \in DOMAIN sync.body
       /\ sync.body.total = sync.n
       /\ sync.body.synced = sync.syncedCount
       /\ sync.body.synced + ErrorEntries(sync.body) = sync.n

\* A sync of two products or more answers with some synced and some in
\* errors.
WitnessProductsAccounted ==
  /\ SyncAnswered
  /\ sync.n >= 2
  /\ sync.body.synced >= 1
  /\ ErrorEntries(sync.body) >= 1

====
